---- MODULE Spec2Model ----
(***************************************************************************)
(* Model of src/src/lib.rs (actix-web-middleware-redirect-https):          *)
(* the RedirectHTTPS middleware configuration, the RedirectHTTPSService it *)
(* instantiates, and the per-request call operation.                       *)
(*                                                                         *)
(* Strings are sequences of one-character strings, so that the URL         *)
(* formatting and str::replace are computed character by character.        *)
(***************************************************************************)
EXTENDS Naturals, Sequences, FiniteSets

VARIABLES
    cfg,        \* <<>> before a constructor ran, else <<c>>: the RedirectHTTPS value
    hist,       \* the last two operations on the RedirectHTTPS value, with their results
    services,   \* the RedirectHTTPSService values, in order of instantiation
    built,      \* per service, the field values new_transform gave it
    calls       \* the call operations so far, in arrival order, each with its future

vars == <<cfg, hist, services, built, calls>>

(* ------------------------------ bounds -------------------------------- *)

MaxReplacements == 2
MaxServices == 2
MaxCalls == 2

(* ------------------------------ inputs -------------------------------- *)

Http == <<"h", "t", "t", "p">>
Https == <<"h", "t", "t", "p", "s">>

Schemes == {Http, Https}

\* (host, uri) of the requests: "b:88" + "/8" and "a" + "/888:8"
Targets ==
    { [host |-> <<"b", ":", "8", "8">>, uri |-> <<"/", "8">>],
      [host |-> <<"a">>, uri |-> <<"/", "8", "8", "8", ":", "8">>] }

Requests == { [scheme |-> s, host |-> t.host, uri |-> t.uri] : s \in Schemes, t \in Targets }

\* (s1, s2) pairs: ":8" -> ":88" and "88" -> "9"
Pairs ==
    { << <<":", "8">>, <<":", "8", "8">> >>,
      << <<"8", "8">>, <<"9">> >> }

ReplacementLists == UNION { [1..n -> Pairs] : n \in 0..MaxReplacements }

(* --------------------------- pure functions --------------------------- *)

\* #[derive(Default)]: bool::default() is false, Vec::default() is empty
Default == [disabled |-> FALSE, replacements |-> <<>>]

\* mutant: the constructor builds a disabled filter
with_replacements_disabled(replacements) ==
    [disabled |-> TRUE, replacements |-> replacements]

with_replacements(replacements) ==
    [disabled |-> FALSE, replacements |-> replacements]

\* mutant: the filter is rebuilt from the flag alone, the list is lost
set_enabled_rebuilt(self, enabled) ==
    [disabled |-> ~enabled, replacements |-> <<>>]

\* mutant: ^= in place of =, the flag is toggled by set_enabled(false)
set_enabled_xor(self, enabled) ==
    [self EXCEPT !.disabled = (self.disabled # ~enabled)]

set_enabled(self, enabled) ==
    [self EXCEPT !.disabled = ~enabled]

\* mutant: the service's flag is left at its default
new_transform_flagless(self) ==
    [disabled |-> FALSE, replacements |-> self.replacements]

new_transform(self) ==
    [disabled |-> self.disabled, replacements |-> self.replacements]

\* str::replace(from, to): every non-overlapping match, leftmost first; an empty
\* pattern matches at every character boundary
RECURSIVE replace(_, _, _)
replace(s, from, to) ==
    IF from = <<>>
    THEN IF s = <<>> THEN to ELSE to \o <<Head(s)>> \o replace(Tail(s), from, to)
    ELSE IF Len(s) < Len(from) THEN s
    ELSE IF SubSeq(s, 1, Len(from)) = from
         THEN to \o replace(SubSeq(s, Len(from) + 1, Len(s)), from, to)
         ELSE <<Head(s)>> \o replace(Tail(s), from, to)

\* format!("https://{}{}", host, uri)
format_url(host, uri) ==
    <<"h", "t", "t", "p", "s", ":", "/", "/">> \o host \o uri

\* mutant: the pairs are applied last to first
RECURSIVE apply_replacements_rev(_, _)
apply_replacements_rev(url, replacements) ==
    IF replacements = <<>> THEN url
    ELSE replace(apply_replacements_rev(url, Tail(replacements)),
                 Head(replacements)[1], Head(replacements)[2])

\* for (s1, s2) in replacements.iter() { url = url.replace(s1, s2); }
RECURSIVE apply_replacements(_, _)
apply_replacements(url, replacements) ==
    IF replacements = <<>> THEN url
    ELSE apply_replacements(replace(url, Head(replacements)[1], Head(replacements)[2]),
                            Tail(replacements))

\* mutant: the scheme is not looked at
forwards_flag_only(self, req) ==
    ~self.disabled

\* the condition of call's if: the request goes to the wrapped service
forwards(self, req) ==
    req.scheme = Https \/ ~self.disabled

MovedPermanently == 301

Ok(status, location) ==
    [ok |-> TRUE, status |-> status, location |-> location, error |-> ""]

Err(e) ==
    [ok |-> FALSE, status |-> 0, location |-> <<>>, error |-> e]

\* mutant: the redirect path fails
redirect_err(self, req) ==
    Err("redirect")

\* the else branch of call: the value of the Ready future
redirect(self, req) ==
    Ok(MovedPermanently,
       <<apply_replacements(format_url(req.host, req.uri), self.replacements)>>)

\* what the wrapped service's future may resolve to
InnerOutcomes == { Ok(200, <<>>), Err("inner") }

(* ------------------------------ actions ------------------------------- *)

Last2(h) == IF Len(h) > 2 THEN Tail(h) ELSE h

Record(op, enabled, list, c) ==
    Last2(Append(hist, [op |-> op, enabled |-> enabled, list |-> list, cfg |-> c]))

Init ==
    /\ cfg = <<>>
    /\ hist = <<>>
    /\ services = <<>>
    /\ built = <<>>
    /\ calls = <<>>

AppDefault ==
    /\ cfg = <<>>
    /\ cfg' = <<Default>>
    /\ hist' = Record("default", TRUE, <<>>, Default)
    /\ UNCHANGED <<services, built, calls>>

AppWithReplacements(list) ==
    /\ cfg = <<>>
    /\ cfg' = <<with_replacements(list)>>
    /\ hist' = Record("with_replacements", TRUE, list, with_replacements(list))
    /\ UNCHANGED <<services, built, calls>>

\* set_enabled takes self by value: it runs on the value before it is moved into
\* the application, that is before any service is instantiated from it
AppSetEnabled(enabled) ==
    /\ cfg # <<>>
    /\ services = <<>>
    /\ cfg' = <<set_enabled(cfg[1], enabled)>>
    /\ hist' = Record("set_enabled", enabled, <<>>, set_enabled(cfg[1], enabled))
    /\ UNCHANGED <<services, built, calls>>

\* new_transform(&self, service): the configuration is read, not written
AppNewTransform ==
    /\ cfg # <<>>
    /\ Len(services) < MaxServices
    /\ services' = Append(services, new_transform(cfg[1]))
    /\ built' = Append(built, services'[Len(services')])
    /\ hist' = Record("new_transform", TRUE, <<>>, cfg[1])
    /\ UNCHANGED <<cfg, calls>>

\* mutant: the redirect path drains the service's replacement list
call_drain(i, req) ==
    /\ i \in 1..Len(services)
    /\ Len(calls) < MaxCalls
    /\ calls' = Append(calls,
          IF forwards(services[i], req)
          THEN [svc |-> i, req |-> req, fut |-> "Left",
                next |-> <<req>>, inner |-> <<>>, out |-> <<>>]
          ELSE [svc |-> i, req |-> req, fut |-> "Right",
                next |-> <<>>, inner |-> <<>>, out |-> <<redirect(services[i], req)>>])
    /\ services' = IF forwards(services[i], req) THEN services
                   ELSE [services EXCEPT ![i].replacements = <<>>]
    /\ UNCHANGED <<cfg, hist, built>>

\* call(&self, req): Either::Left(self.service.call(req)) or Either::Right(ok(..))
call(i, req) ==
    /\ i \in 1..Len(services)
    /\ Len(calls) < MaxCalls
    /\ calls' = Append(calls,
          IF forwards(services[i], req)
          THEN [svc |-> i, req |-> req, fut |-> "Left",
                next |-> <<req>>, inner |-> <<>>, out |-> <<>>]
          ELSE [svc |-> i, req |-> req, fut |-> "Right",
                next |-> <<>>, inner |-> <<>>, out |-> <<redirect(services[i], req)>>])
    /\ UNCHANGED <<cfg, hist, services, built>>

\* the Left future is polled when the wrapped service's future resolves to o
poll(k, o) ==
    /\ k \in 1..Len(calls)
    /\ calls[k].fut = "Left"
    /\ calls[k].out = <<>>
    /\ calls' = [calls EXCEPT ![k].inner = <<o>>, ![k].out = <<o>>]
    /\ UNCHANGED <<cfg, hist, services, built>>

Next ==
    \/ AppDefault
    \/ \E list \in ReplacementLists : AppWithReplacements(list)
    \/ \E enabled \in BOOLEAN : AppSetEnabled(enabled)
    \/ AppNewTransform
    \/ \E i \in 1..MaxServices, req \in Requests : call(i, req)
    \/ \E k \in 1..MaxCalls, o \in InnerOutcomes : poll(k, o)

Spec == Init /\ [][Next]_vars

(* ------------------------------ claims -------------------------------- *)

Calls == 1..Len(calls)

Enabled(self) == ~self.disabled

Insecure(req) == req.scheme # Https

\* the call was answered by the filter itself with a 301, the wrapped service unused
Redirected(c) ==
    /\ c.fut = "Right"
    /\ c.next = <<>>
    /\ c.out # <<>>
    /\ c.out[1].ok
    /\ c.out[1].status = 301

\* the wrapped service was invoked exactly once, with the request, and the result
\* of the call, once there, is the wrapped service's result
PassedThrough(c) ==
    /\ c.fut = "Left"
    /\ c.next = <<c.req>>
    /\ c.out = c.inner

\* the replacement list folded over the URL, pair n applied to the result of the
\* pairs before it
RECURSIVE Fold(_, _, _)
Fold(url, list, n) ==
    IF n = 0 THEN url
    ELSE replace(Fold(url, list, n - 1), list[n][1], list[n][2])

Reverse(list) == [n \in 1..Len(list) |-> list[Len(list) + 1 - n]]

NaiveUrl(req) == <<"h", "t", "t", "p", "s", ":", "/", "/">> \o req.host \o req.uri

LastOp == hist[Len(hist)]

\* C1: every insecure request evaluated by an enabled filter is answered with a 301
\* by the filter itself, and the next stage is never invoked for it.
C1_EnabledInsecureRedirects ==
    \A k \in Calls :
        (Insecure(calls[k].req) /\ Enabled(services[calls[k].svc]))
            => Redirected(calls[k])

\* C2: every insecure request evaluated by a disabled filter invokes the next stage
\* exactly once with the request and returns its result unchanged, with no redirect.
C2_DisabledInsecurePasses ==
    \A k \in Calls :
        (Insecure(calls[k].req) /\ ~Enabled(services[calls[k].svc]))
            => PassedThrough(calls[k])

\* C3: every https request, whatever the enabled flag and the replacement list,
\* invokes the next stage exactly once with the request and returns its result
\* unchanged; the filter never redirects it.
C3_SecurePasses ==
    \A k \in Calls :
        calls[k].req.scheme = Https
            => (PassedThrough(calls[k]) /\ ~Redirected(calls[k]))

C3_Witness ==
    \E k \in Calls :
        /\ calls[k].req.scheme = Https
        /\ services[calls[k].svc].disabled
        /\ services[calls[k].svc].replacements # <<>>
        /\ calls[k].out # <<>>

\* C4: the Location of a redirect is the replacement list folded in insertion order
\* over "https://" + host + request-target, each pair replacing all non-overlapping
\* occurrences in the cumulative result; with an empty list it is that URL itself.
C4_LocationIsFold ==
    \A k \in Calls :
        calls[k].fut = "Right" =>
            LET c == calls[k]
                list == built[c.svc].replacements
            IN  /\ c.out # <<>>
                /\ c.out[1].location = <<Fold(NaiveUrl(c.req), list, Len(list))>>
                /\ (list = <<>> => c.out[1].location = <<NaiveUrl(c.req)>>)

\* ":8" -> ":88" then "88" -> "9" on https://b:88/8 gives https://b:98/8, which the
\* pairs in the other order, or applied to the original string, do not give
C4_Witness ==
    \E k \in Calls :
        LET c == calls[k]
            list == services[c.svc].replacements
        IN  /\ c.fut = "Right"
            /\ c.req.host = <<"b", ":", "8", "8">>
            /\ list = << << <<":", "8">>, <<":", "8", "8">> >>, << <<"8", "8">>, <<"9">> >> >>
            /\ c.out[1].location =
                 << <<"h", "t", "t", "p", "s", ":", "/", "/", "b", ":", "9", "8", "/", "8">> >>
            /\ c.out[1].location # <<Fold(NaiveUrl(c.req), Reverse(list), Len(list))>>

\* C5: default() is enabled with an empty replacement list; with_replacements(list)
\* is enabled with a replacement list equal to list, element for element.
C5_ConstructorsEnabled ==
    /\ (hist # <<>> /\ LastOp.op = "default")
          => cfg = <<[disabled |-> FALSE, replacements |-> <<>>]>>
    /\ (hist # <<>> /\ LastOp.op = "with_replacements")
          => (Enabled(cfg[1]) /\ cfg[1].replacements = LastOp.list)

C5_Witness ==
    /\ hist # <<>>
    /\ LastOp.op = "with_replacements"
    /\ Len(LastOp.list) = 2
    /\ LastOp.list[1] # LastOp.list[2]
    /\ cfg[1].replacements = LastOp.list

\* C6: set_enabled(b) returns a configuration whose enabled flag is b and whose
\* replacement list is the list before the call, in content and order.
C6_SetEnabledFrame ==
    (Len(hist) = 2 /\ hist[2].op = "set_enabled")
        => /\ Enabled(cfg[1]) = hist[2].enabled
           /\ cfg[1].disabled = ~hist[2].enabled
           /\ cfg[1].replacements = hist[1].cfg.replacements

C6_Witness ==
    /\ Len(hist) = 2
    /\ hist[2].op = "set_enabled"
    /\ Enabled(hist[1].cfg) # hist[2].enabled
    /\ Len(hist[1].cfg.replacements) = 2
    /\ hist[1].cfg.replacements[1] # hist[1].cfg.replacements[2]

\* C7: set_enabled is idempotent: set_enabled(b) applied to the result of
\* set_enabled(b) returns that result, flag and replacement list.
C7_SetEnabledIdempotent ==
    (/\ Len(hist) = 2
     /\ hist[1].op = "set_enabled"
     /\ hist[2].op = "set_enabled"
     /\ hist[1].enabled = hist[2].enabled)
        => (hist[2].cfg = hist[1].cfg /\ cfg = <<hist[1].cfg>>)

C7_Witness ==
    /\ Len(hist) = 2
    /\ hist[1].op = "set_enabled"
    /\ hist[2].op = "set_enabled"
    /\ hist[1].enabled
    /\ hist[2].enabled
    /\ cfg[1].replacements # <<>>

\* C8: the filter originates no error: a redirect is always Ok, and call returns an
\* error if and only if the next stage was invoked and returned that same error.
C8_NoOwnError ==
    \A k \in Calls :
        LET c == calls[k]
        IN  /\ c.fut = "Right" => (c.out # <<>> /\ c.out[1].ok)
            /\ (c.out # <<>> /\ ~c.out[1].ok)
                  => (c.fut = "Left" /\ Len(c.next) = 1 /\ c.inner = c.out)
            /\ (c.inner # <<>> /\ ~c.inner[1].ok) => c.out = c.inner

C8_Witness ==
    \E j, k \in Calls :
        /\ calls[j].fut = "Right"
        /\ calls[j].out # <<>>
        /\ calls[j].out[1].ok
        /\ calls[k].fut = "Left"
        /\ calls[k].out # <<>>
        /\ ~calls[k].out[1].ok

\* C9: over any sequence and interleaving of calls, a service's flag and list stay
\* as built, and the outcome of a request (pass-through or redirect, and the
\* Location) depends on the request and the configuration alone.
C9_Stateless ==
    /\ services = built
    /\ \A j, k \in Calls :
          (calls[j].req = calls[k].req /\ built[calls[j].svc] = built[calls[k].svc])
              => /\ calls[j].fut = calls[k].fut
                 /\ calls[j].fut = "Right" => calls[j].out = calls[k].out

\* a redirect computed on a service while an earlier call on it is still in flight
C9_Witness ==
    /\ Len(calls) = 2
    /\ calls[1].svc = calls[2].svc
    /\ calls[1].fut = "Left"
    /\ calls[1].out = <<>>
    /\ calls[2].fut = "Right"
    /\ calls[2].out # <<>>
    /\ services[calls[2].svc].replacements # <<>>

\* C10: a service is built with the flag and list of the configuration, which
\* new_transform leaves unchanged; services of one configuration decide alike and
\* compute the same Location for the same request.
C10_ServicesCopyConfig ==
    /\ \A i \in 1..Len(services) :
          /\ services[i].disabled = cfg[1].disabled
          /\ services[i].replacements = cfg[1].replacements
    /\ (Len(hist) = 2 /\ hist[2].op = "new_transform")
          => (cfg = <<hist[1].cfg>> /\ hist[2].cfg = hist[1].cfg)
    /\ \A j, k \in Calls :
          calls[j].req = calls[k].req
              => /\ calls[j].fut = calls[k].fut
                 /\ calls[j].fut = "Right" => calls[j].out = calls[k].out

C10_Witness ==
    /\ Len(services) = 2
    /\ cfg[1].disabled
    /\ cfg[1].replacements # <<>>
    /\ Len(calls) = 2
    /\ calls[1].svc # calls[2].svc
    /\ calls[1].req = calls[2].req
    /\ calls[1].fut = "Right"
    /\ calls[2].fut = "Right"

====
